---- MODULE Spec2Model ----
(***************************************************************************)
(* Model of pdf_editor.py: the argument checks of argument_parser, the     *)
(* rename loop of main (get_pdf_metadata, write_new_pdf, shutil.move) and  *)
(* merge_pdfs, run against a small file system.                            *)
(*                                                                         *)
(* Strings are sequences of one-character strings, so that str.strip,      *)
(* str.endswith and path concatenation are computed, not assumed.  A file  *)
(* is a record [kind, pages, meta]; kind is "absent", "pdf" (a complete    *)
(* document), "garbage" (bytes that do not parse as a PDF), "empty" (a     *)
(* file just truncated by open(.., 'wb')) or "partial" (a document whose   *)
(* writing stopped midway).                                                *)
(***************************************************************************)
EXTENDS Integers, Sequences, FiniteSets, TLC

VARIABLES
    args,      \* the parsed command line: [merge, rename, paths, out]
    fs,        \* the file system: path -> file
    fs0,       \* history: the file system when the program started
    pc,        \* position of the program
    idx,       \* index (1-based) of the current element of the path list
    metadata,  \* local `metadata` of change_file_metadata_to_file_name
    before,    \* history: the file at the current path when its rename began
    pages,     \* merge_pdfs: the pages accumulated in `merger`
    handles,   \* the file handles that are open
    opened,    \* history: every path the program has opened so far
    err        \* the exception that ended the run, or "none"

vars == <<args, fs, fs0, pc, idx, metadata, before, pages, handles, opened, err>>

\* ------------------------------------------------------------------ bounds

MaxPaths == 3

\* --------------------------------------------------------------- constants

MERGE == "merge"
RENAME == "rename"

\* ----------------------------------------------------------------- strings

PdfExt == <<".", "p", "d", "f">>
TmpExt == <<".", "t", "m", "p">>

EndsWith(s, suffix) ==
    /\ Len(s) >= Len(suffix)
    /\ SubSeq(s, Len(s) - Len(suffix) + 1, Len(s)) = suffix

\* str.strip(chars): every leading and every trailing character that is a
\* member of `chars` is removed.
RECURSIVE LStrip(_, _)
LStrip(s, chars) ==
    IF s # <<>> /\ Head(s) \in chars THEN LStrip(Tail(s), chars) ELSE s

RECURSIVE RStrip(_, _)
RStrip(s, chars) ==
    IF s # <<>> /\ s[Len(s)] \in chars
    THEN RStrip(SubSeq(s, 1, Len(s) - 1), chars)
    ELSE s

Strip(s, chars) == RStrip(LStrip(s, chars), chars)

Range(s) == {s[i] : i \in 1..Len(s)}

\* pdf_file.strip(".pdf"): the argument is a set of characters.
TitleOf(pdf_file) == Strip(pdf_file, Range(PdfExt))

\* temp_pdf_file = pdf_file + ".tmp"
TempPathMut(pdf_file) == pdf_file
TempPath(pdf_file) == pdf_file \o TmpExt

\* ------------------------------------------------------------------- paths

ReportPdf == <<"r","e","p","o","r","t",".","f","i","n","a","l",".","p","d","f">>
DraftPdf  == <<"d","/","d","r","a","f","t",".","p","d","f">>
APdf      == <<"a",".","p","d","f">>
NotesTxt  == <<"n","o","t","e","s",".","t","x","t">>
GonePdf   == <<"g","o","n","e",".","p","d","f">>
OutPdf    == <<"o","u","t",".","p","d","f">>
OutTxt    == <<"o","u","t",".","t","x","t">>
NoOutput  == <<>>

InputPaths == {ReportPdf, DraftPdf, APdf, NotesTxt, GonePdf}
OutChoices == {NoOutput, OutPdf, OutTxt, ReportPdf}
AllPaths ==
    InputPaths \cup {TempPath(p) : p \in InputPaths} \cup (OutChoices \ {NoOutput})

PathLists == UNION {[1..n -> InputPaths] : n \in 0..MaxPaths}

\* ------------------------------------------------------------------- files

Str(v)    == [isStr |-> TRUE, val |-> v]
NonStr(v) == [isStr |-> FALSE, val |-> v]

EmptyMeta == [k \in {} |-> Str(<<>>)]

Absent  == [kind |-> "absent",  pages |-> <<>>, meta |-> EmptyMeta]
Garbage == [kind |-> "garbage", pages |-> <<>>, meta |-> EmptyMeta]
Empty   == [kind |-> "empty",   pages |-> <<>>, meta |-> EmptyMeta]
Partial == [kind |-> "partial", pages |-> <<>>, meta |-> EmptyMeta]

Pdf(pp, m) == [kind |-> "pdf", pages |-> pp, meta |-> m]

DocA ==
    Pdf(<<"a1", "a2">>,
        [k \in {"/Title", "/Author", "/Trapped"} |->
            CASE k = "/Title"   -> Str(<<"o","l","d">>)
              [] k = "/Author"  -> Str(<<"a","n","n">>)
              [] k = "/Trapped" -> NonStr(<<"T","r","u","e">>)])

DocB ==
    Pdf(<<"b1">>, [k \in {"/Producer"} |-> Str(<<"a","c","r","o">>)])

FileSystem(report, draft, reportTmp) ==
    [p \in AllPaths |->
        CASE p = ReportPdf           -> report
          [] p = DraftPdf            -> draft
          [] p = APdf                -> DocB
          [] p = NotesTxt            -> DocA
          [] p = ReportPdf \o TmpExt -> reportTmp
          [] OTHER                   -> Absent]

InitialFileSystems ==
    {FileSystem(r, d, t) : r \in {DocA, Garbage}, d \in {DocB, Garbage},
                           t \in {Absent, DocB}}

Exists(path) == path \in DOMAIN fs /\ fs[path].kind # "absent"

\* ---------------------------------------------------------------- metadata

\* {key: value for key, value in raw_metadata.items() if isinstance(value, str)}
StrItemsMut(m) == m
StrItems(m) == [k \in {j \in DOMAIN m : m[j].isStr} |-> m[k]]

\* metadata["/Title"] = title
SetTitle(m, title) ==
    [k \in DOMAIN m \cup {"/Title"} |-> IF k = "/Title" THEN Str(title) ELSE m[k]]

\* The info dictionary of a new PdfFileMerger's output document.
WriterInfo == [k \in {"/Producer"} |-> Str(<<"P","y","P","D","F","2">>)]

\* pdf_merger.addMetadata(metadata): a dictionary update of the output's info.
AddMetadata(info, m) ==
    [k \in DOMAIN info \cup DOMAIN m |-> IF k \in DOMAIN m THEN m[k] ELSE info[k]]

\* pdf_merger.append(pages of one input)
AppendPagesMut(acc, pp) == pp \o acc
AppendPages(acc, pp) == acc \o pp

\* ---------------------------------------------------------------- handles

Handle(path, mode, n) == [path |-> path, mode |-> mode, n |-> n]

\* ------------------------------------------------------------- validation

Mode == IF args.merge THEN MERGE ELSE RENAME

ValidArgumentsMut ==
    /\ args.merge # args.rename
    /\ Len(args.paths) > 0
    /\ (Mode = MERGE) =>
          /\ args.out # NoOutput
          /\ EndsWith(args.out, PdfExt)
          /\ Len(args.paths) > 1
    /\ Exists(args.paths[1])
    /\ EndsWith(args.paths[1], PdfExt)

ValidArguments ==
    /\ args.merge # args.rename
    /\ Len(args.paths) > 0
    /\ (Mode = MERGE) =>
          /\ args.out # NoOutput
          /\ EndsWith(args.out, PdfExt)
          /\ Len(args.paths) > 1
    /\ \A i \in 1..Len(args.paths) :
          /\ Exists(args.paths[i])
          /\ EndsWith(args.paths[i], PdfExt)

\* ------------------------------------------------------------------- Init

Init ==
    /\ args \in [merge : BOOLEAN, rename : BOOLEAN,
                 paths : PathLists, out : OutChoices]
    /\ fs \in InitialFileSystems
    /\ fs0 = fs
    /\ pc = "start"
    /\ idx = 1
    /\ metadata = EmptyMeta
    /\ before = Absent
    /\ pages = <<>>
    /\ handles = {}
    /\ opened = {}
    /\ err = "none"

\* ----------------------------------------------------------------- actions

\* argument_parser, as called by main.
ArgumentParser ==
    /\ pc = "start"
    /\ IF ValidArguments
       THEN /\ pc' = (IF Mode = RENAME THEN "rename" ELSE "merge_append")
            /\ err' = err
       ELSE /\ pc' = "error"
            /\ err' = "AssertionError"
    /\ UNCHANGED <<args, fs, fs0, idx, metadata, before, pages, handles, opened>>

\* An exception inside the rename loop: main has no handler.
RenameFailureMut(i) == [pc |-> "rename", idx |-> i + 1]
RenameFailure(i) == [pc |-> "error", idx |-> i]

RaiseInRename(e) ==
    /\ pc' = RenameFailure(idx).pc
    /\ idx' = RenameFailure(idx).idx
    /\ err' = e

\* for pdf_path in pbar: change_file_metadata_to_file_name(pdf_path)
RenameNext ==
    /\ pc = "rename"
    /\ IF idx > Len(args.paths)
       THEN /\ pc' = "done"
            /\ before' = before
       ELSE /\ pc' = "get_open"
            /\ before' = fs[args.paths[idx]]
    /\ UNCHANGED <<args, fs, fs0, idx, metadata, pages, handles, opened, err>>

\* get_pdf_metadata: open(pdf_file, 'rb')
GetMetadataOpen ==
    /\ pc = "get_open"
    /\ LET p == args.paths[idx] IN
       \E ok \in BOOLEAN :
          IF ok /\ Exists(p)
          THEN /\ handles' = handles \cup {Handle(p, "rb", 0)}
               /\ opened' = opened \cup {p}
               /\ pc' = "get_read"
               /\ UNCHANGED <<idx, err>>
          ELSE /\ RaiseInRename("IOError")
               /\ UNCHANGED <<handles, opened>>
    /\ UNCHANGED <<args, fs, fs0, metadata, before, pages>>

\* get_pdf_metadata: the body of the with block, the filter, and the title
\* assignment of change_file_metadata_to_file_name.
GetMetadataRead ==
    /\ pc = "get_read"
    /\ LET p == args.paths[idx] IN
       /\ handles' = handles \ {Handle(p, "rb", 0)}
       /\ \E ok \in BOOLEAN :
             IF ok /\ fs[p].kind = "pdf"
             THEN /\ metadata' = SetTitle(StrItems(fs[p].meta), TitleOf(p))
                  /\ pc' = "write_open"
                  /\ UNCHANGED <<idx, err>>
             ELSE /\ RaiseInRename(IF ok THEN "PdfReadError" ELSE "IOError")
                  /\ UNCHANGED metadata
    /\ UNCHANGED <<args, fs, fs0, before, pages, opened>>

\* write_new_pdf: open(input_pdf, 'rb'), open(output_pdf, 'wb')
WriteOpen ==
    /\ pc = "write_open"
    /\ LET p == args.paths[idx]
           t == TempPath(p) IN
       \E outcome \in {"ok", "input_fails", "output_fails"} :
          CASE outcome = "ok" ->
                  /\ fs' = [fs EXCEPT ![t] = Empty]
                  /\ handles' = handles \cup {Handle(p, "rb", 0), Handle(t, "wb", 0)}
                  /\ opened' = opened \cup {p, t}
                  /\ pc' = "write_body"
                  /\ UNCHANGED <<idx, err>>
            [] outcome = "input_fails" ->
                  /\ RaiseInRename("IOError")
                  /\ UNCHANGED <<fs, handles, opened>>
            [] outcome = "output_fails" ->
                  /\ RaiseInRename("IOError")
                  /\ opened' = opened \cup {p}
                  /\ UNCHANGED <<fs, handles>>
    /\ UNCHANGED <<args, fs0, metadata, before, pages>>

\* write_new_pdf: the body of the with block; both handles are closed on exit.
WriteBody ==
    /\ pc = "write_body"
    /\ LET p == args.paths[idx]
           t == TempPath(p) IN
       /\ handles' = handles \ {Handle(p, "rb", 0), Handle(t, "wb", 0)}
       /\ \E outcome \in {"ok", "append_fails", "write_fails"} :
             IF outcome = "ok" /\ fs[p].kind = "pdf"
             THEN /\ fs' = [fs EXCEPT ![t] =
                              Pdf(AppendPages(<<>>, fs[p].pages),
                                  AddMetadata(WriterInfo, metadata))]
                  /\ pc' = "move"
                  /\ UNCHANGED <<idx, err>>
             ELSE IF outcome = "write_fails"
             THEN /\ fs' = [fs EXCEPT ![t] = Partial]
                  /\ RaiseInRename("IOError")
             ELSE /\ fs' = fs
                  /\ RaiseInRename("PdfReadError")
    /\ UNCHANGED <<args, fs0, metadata, before, pages, opened>>

\* shutil.move(temp_pdf_file, pdf_file): both paths are in one directory, so
\* the move is os.rename, which replaces pdf_file in one step or not at all.
Move ==
    /\ pc = "move"
    /\ LET p == args.paths[idx]
           t == TempPath(p) IN
       \E ok \in BOOLEAN :
          IF ok
          THEN /\ fs' = [q \in DOMAIN fs |->
                            IF q = p THEN fs[t] ELSE IF q = t THEN Absent ELSE fs[q]]
               /\ idx' = idx + 1
               /\ pc' = "rename"
               /\ err' = err
          ELSE /\ fs' = fs
               /\ RaiseInRename("OSError")
    /\ UNCHANGED <<args, fs0, metadata, before, pages, handles, opened>>

\* merge_pdfs: one iteration of `for pdf in pdf_path_list: merger.append(pdf)`.
\* The merger opens the path and keeps the handle until merger.close().
MergeAppend ==
    /\ pc = "merge_append"
    /\ LET p == args.paths[idx] IN
       \E ok \in BOOLEAN :
          IF ok /\ Exists(p)
          THEN /\ handles' = handles \cup {Handle(p, "rb", idx)}
               /\ opened' = opened \cup {p}
               /\ IF fs[p].kind = "pdf"
                  THEN /\ pages' = AppendPages(pages, fs[p].pages)
                       /\ idx' = idx + 1
                       /\ pc' = (IF idx = Len(args.paths)
                                 THEN "merge_write_open" ELSE "merge_append")
                       /\ err' = err
                  ELSE /\ pc' = "error"
                       /\ err' = "PdfReadError"
                       /\ UNCHANGED <<pages, idx>>
          ELSE /\ pc' = "error"
               /\ err' = "IOError"
               /\ UNCHANGED <<pages, idx, handles, opened>>
    /\ UNCHANGED <<args, fs, fs0, metadata, before>>

\* merger.write(output_path): the output path is opened 'wb'.
MergeWriteOpen ==
    /\ pc = "merge_write_open"
    /\ \E ok \in BOOLEAN :
          IF ok
          THEN /\ fs' = [fs EXCEPT ![args.out] = Empty]
               /\ handles' = handles \cup {Handle(args.out, "wb", 0)}
               /\ opened' = opened \cup {args.out}
               /\ pc' = "merge_write_body"
               /\ err' = err
          ELSE /\ pc' = "error"
               /\ err' = "IOError"
               /\ UNCHANGED <<fs, handles, opened>>
    /\ UNCHANGED <<args, fs0, idx, metadata, before, pages>>

\* merger.write(output_path): the document is written and the output handle
\* closed; a failure leaves what was written and closes nothing.
MergeWriteBody ==
    /\ pc = "merge_write_body"
    /\ \E outcome \in {"ok", "fails_at_once", "fails_midway"} :
          CASE outcome = "ok" ->
                  /\ fs' = [fs EXCEPT ![args.out] =
                              Pdf(pages, AddMetadata(WriterInfo, EmptyMeta))]
                  /\ handles' = handles \ {Handle(args.out, "wb", 0)}
                  /\ pc' = "merge_close"
                  /\ err' = err
            [] outcome = "fails_at_once" ->
                  /\ pc' = "error"
                  /\ err' = "PdfReadError"
                  /\ UNCHANGED <<fs, handles>>
            [] outcome = "fails_midway" ->
                  /\ fs' = [fs EXCEPT ![args.out] = Partial]
                  /\ pc' = "error"
                  /\ err' = "IOError"
                  /\ UNCHANGED handles
    /\ UNCHANGED <<args, fs0, idx, metadata, before, pages, opened>>

\* merger.close()
MergeClose ==
    /\ pc = "merge_close"
    /\ handles' = {}
    /\ pc' = "done"
    /\ UNCHANGED <<args, fs, fs0, idx, metadata, before, pages, opened, err>>

Next ==
    \/ ArgumentParser
    \/ RenameNext
    \/ GetMetadataOpen
    \/ GetMetadataRead
    \/ WriteOpen
    \/ WriteBody
    \/ Move
    \/ MergeAppend
    \/ MergeWriteOpen
    \/ MergeWriteBody
    \/ MergeClose

Spec == Init /\ [][Next]_vars

\* ------------------------------------------------------------------ claims

PathsValidated == pc # "start" /\ err # "AssertionError"

\* os.path.basename
RECURSIVE Basename(_)
Basename(s) == IF "/" \in Range(s) THEN Basename(Tail(s)) ELSE s

\* One trailing suffix removed.
RemoveSuffixOnce(s, suffix) ==
    IF EndsWith(s, suffix) THEN SubSeq(s, 1, Len(s) - Len(suffix)) ELSE s

\* The previous element of the list has just been renamed successfully.
RenameSucceeded == Mode = RENAME /\ pc = "rename" /\ idx > 1

\* C1 (as claimed): after a successful rename of P the title of the document
\* at P is basename(P) with one trailing ".pdf" removed and nothing else.
C1_TitleIsBasenameWithoutSuffix ==
    RenameSucceeded =>
        LET p == args.paths[idx - 1] IN
        /\ fs[p].kind = "pdf"
        /\ "/Title" \in DOMAIN fs[p].meta
        /\ fs[p].meta["/Title"] = Str(RemoveSuffixOnce(Basename(p), PdfExt))

RECURSIVE ConcatPages(_)
ConcatPages(paths) ==
    IF paths = <<>> THEN <<>> ELSE fs0[Head(paths)].pages \o ConcatPages(Tail(paths))

\* C2: after a successful merge the pages of the output are the pages of the
\* inputs, concatenated in the order of the path list.
C2_MergeConcatenatesInOrder ==
    (Mode = MERGE /\ pc = "done") =>
        /\ fs[args.out].kind = "pdf"
        /\ fs[args.out].pages = ConcatPages(args.paths)
        /\ Len(fs[args.out].pages) =
              Len(fs0[args.paths[1]].pages) + Len(ConcatPages(Tail(args.paths)))

C2_Witness ==
    /\ Mode = MERGE
    /\ pc = "done"
    /\ args.paths = <<DraftPdf, ReportPdf, APdf>>
    /\ fs[args.out].pages = <<"b1", "a1", "a2", "b1">>

\* C3 (as claimed): a successful rename keeps the pages, keeps every metadata
\* entry other than the title whatever the type of its value, and adds none.
C3_OnlyTitleDiffers ==
    RenameSucceeded =>
        LET new == fs[args.paths[idx - 1]] IN
        /\ new.pages = before.pages
        /\ \A k \in DOMAIN before.meta \ {"/Title"} :
              k \in DOMAIN new.meta /\ new.meta[k] = before.meta[k]
        /\ DOMAIN new.meta \subseteq DOMAIN before.meta \cup {"/Title"}

\* C3 (amended): a successful rename keeps the pages and every string-valued
\* entry other than the title; entries that are not strings are dropped; the
\* only entries that can be new are the title and the writer's /Producer.
C3_StringEntriesKept ==
    RenameSucceeded =>
        LET new == fs[args.paths[idx - 1]] IN
        /\ new.kind = "pdf"
        /\ new.pages = before.pages
        /\ \A k \in DOMAIN before.meta \ {"/Title"} :
              IF before.meta[k].isStr
              THEN k \in DOMAIN new.meta /\ new.meta[k] = before.meta[k]
              ELSE k \notin DOMAIN new.meta
        /\ DOMAIN new.meta \subseteq DOMAIN before.meta \cup {"/Title", "/Producer"}
        /\ "/Producer" \notin DOMAIN before.meta =>
              new.meta["/Producer"] = WriterInfo["/Producer"]

C3_Witness ==
    /\ RenameSucceeded
    /\ before = DocA
    /\ "/Trapped" \notin DOMAIN fs[args.paths[idx - 1]].meta
    /\ fs[args.paths[idx - 1]].meta["/Author"] = DocA.meta["/Author"]

\* The dispatcher rules, as the command line and the initial files decide them.
RuleViolated ==
    \/ args.merge = args.rename
    \/ Len(args.paths) = 0
    \/ args.merge /\ args.out = NoOutput
    \/ args.merge /\ ~EndsWith(args.out, PdfExt)
    \/ args.merge /\ Len(args.paths) < 2
    \/ \E i \in 1..Len(args.paths) :
          \/ fs0[args.paths[i]].kind = "absent"
          \/ ~EndsWith(args.paths[i], PdfExt)

\* C4: an invocation that violates a dispatcher rule ends in an error with no
\* file opened, created, modified or moved.
C4_ValidationPrecedesMutation ==
    RuleViolated =>
        /\ pc \in {"start", "error"}
        /\ pc = "error" => err = "AssertionError"
        /\ fs = fs0
        /\ opened = {}
        /\ handles = {}

C4_Witness ==
    /\ pc = "error"
    /\ err = "AssertionError"
    /\ args.rename /\ ~args.merge
    /\ args.paths = <<APdf, ReportPdf, GonePdf>>
    /\ fs0[ReportPdf].kind = "pdf"
    /\ fs = fs0 /\ opened = {}

\* The document a correct rename of `path` makes of document d.
Updated(path, d) ==
    Pdf(d.pages, AddMetadata(WriterInfo, SetTitle(StrItems(d.meta), TitleOf(path))))

InRenameCall ==
    /\ Mode = RENAME
    /\ \/ pc \in {"get_open", "get_read", "write_open", "write_body", "move"}
       \/ pc = "error" /\ err # "AssertionError"

C6_NoPartialOutputAfterFailure ==
    (Mode = MERGE /\ pc = "error" /\ err # "AssertionError") =>
        fs[args.out].kind \notin {"empty", "partial"}

\* C7 (as claimed): once the operation has returned or raised, no handle it
\* opened is still open.
C7_HandlesReleasedOnEveryExit ==
    /\ pc \in {"done", "error"} => handles = {}
    /\ pc = "rename" => handles = {}

C9_MergeLeavesInputsUnchanged ==
    (Mode = MERGE /\ PathsValidated) =>
        \A i \in 1..Len(args.paths) : fs[args.paths[i]] = fs0[args.paths[i]]

\* C10 (as claimed): between renames and at the end of a rename run, every
\* path that is not an element of the list, the temporary paths included,
\* is as it was when the run began.
C10_RenameTouchesOnlyItsPath ==
    (Mode = RENAME /\ pc \in {"rename", "done", "error"}) =>
        \A q \in AllPaths \ Range(args.paths) : fs[q] = fs0[q]

====
